---- MODULE Spec2Model ----
(***************************************************************************)
(* Point-of-sale cart ledger, total computation and checkout pipeline of   *)
(* the POS component, together with the sale persistence it calls          *)
(* (handleCompleteSale -> createSale -> refreshData), the invoice document *)
(* (generatePDF) and the clearing of the sales history.                    *)
(*                                                                         *)
(* Specifications over the same state and actions: Spec (cart and          *)
(* checkout), SpecLedger (cart and totals alone), SpecDesk (checkout with  *)
(* the customer boxes), SpecHistory (checkout with a sales history that    *)
(* may be cleared), SpecCatalog (checkout while the administrator changes  *)
(* a price), SpecInvoice (checkout with several invoice numbers), SpecLive *)
(* (checkout whose requests are all answered), SpecRace (the createSale    *)
(* calls of two sellers, request by request).                              *)
(*                                                                         *)
(* Money is an integer number of 1/10000 of the currency unit, so that a   *)
(* whole-cent price times (1 - discount/100) with an integer discount is   *)
(* exact: 10.00 is 100000.                                                 *)
(* A text field is a sequence: <<>> is the empty text, <<n>> the text of   *)
(* the number n.                                                           *)
(***************************************************************************)
EXTENDS Integers, Sequences, FiniteSets, TLC

\* Catalog products of the shop.
ProductIds == {"A", "B"}

\* Stock of product A when POS is mounted.
MaxStock == 2

\* Number of sale records after which the session is over: once the
\* checkout that inserted the last of them is through, nothing more happens.
MaxSales == 1

\* Number of checkouts of the session whose sale insert fails.
MaxFailures == 1

\* Number of user events on the cart and the fee boxes while one checkout is
\* in flight.
MaxFlightEdits == 1

\* Number of times the administrator clears the sales history.
MaxClears == 1

\* shop.businessType
BusinessTypes == {"SHOP", "CLINIC", "PHARMACY", "RESTAURANT"}

\* The catalog when POS is mounted: A costs 10.00 and MaxStock of it are in
\* stock, B costs 5.00 and one is in stock.
InitialCatalog ==
  [p \in ProductIds |->
     IF p = "A" THEN [price |-> 100000, stock |-> MaxStock]
     ELSE [price |-> 50000, stock |-> 1]]

\* Texts typed into the quantity box of a cart line.
QuantityTexts == {<<>>} \cup {<<n>> : n \in -1 .. MaxStock + 1}

\* Numbers typed into the discount box of a cart line.
DiscountInputs == {-5, 150}

\* Texts typed into the consultation fee box and the procedure charge box
\* (min="0" on the box does not stop a negative number from being typed).
ConsultationTexts == {<<>>, <<-150000>>, <<150000>>}
ProcedureTexts == {<<>>, <<150000>>}

VARIABLES
  cart,         \* POS state: the cart lines, in order
  clinicFees,   \* POS state: texts of the two fee boxes
  loading,      \* POS state: busy flag
  isSuccess,    \* POS state: success indicator
  products,     \* App state handed to POS as props: the catalog as last fetched
  businessType, \* shop.businessType
  pc,           \* position of the handleCheckout call in flight ("idle" if none)
  ck,           \* values captured by the handleCheckout call in flight
  dbProducts,   \* backend table products
  dbSales,      \* backend table sales
  failures,     \* number of checkouts that ended in "Transaction Failed!"
  customerData, \* POS state: texts of the customer / patient boxes
  doc,          \* the invoice document last saved by generatePDF (<<>> if none)
  clears,       \* number of times the sales history was cleared
  calls,        \* SpecRace: the createSale call of each seller at their desk
  ev            \* the last event: operation, addressed line, argument, alert shown

vars == <<cart, clinicFees, loading, isSuccess, products, businessType,
          pc, ck, dbProducts, dbSales, failures, customerData, doc, clears, calls,
          ev>>

----------------------------------------------------------------------------
\* Helpers on sequences

RECURSIVE SumSeq(_)
SumSeq(s) == IF s = <<>> THEN 0 ELSE Head(s) + SumSeq(Tail(s))

HasLine(c, id) == \E i \in DOMAIN c : c[i].id = id

\* Array.prototype.find: the first line with this id
FindLine(c, id) ==
  c[CHOOSE i \in DOMAIN c : c[i].id = id /\ \A j \in 1 .. i - 1 : c[j].id # id]

Event(op, id, arg, alert) == [op |-> op, id |-> id, arg |-> arg, alert |-> alert]

NoAlert == "none"

----------------------------------------------------------------------------
\* Cart ledger (pure part of each handler: the new cart and the alert shown)

\* availableProducts: what the product grid offers (the search term matches)
availableProducts(prods) == {p \in ProductIds : prods[p].stock > 0}

\* addToCart with the stock test off by one (<= for <)
addToCart_OffByOne(c, p, prods) ==
  IF HasLine(c, p)
  THEN IF FindLine(c, p).quantity <= prods[p].stock
       THEN [i \in DOMAIN c |->
               IF c[i].id = p THEN [c[i] EXCEPT !.quantity = @ + 1] ELSE c[i]]
       ELSE c
  ELSE Append(c, [id |-> p, price |-> prods[p].price, quantity |-> 1, discount |-> 0])

\* addToCart putting the new line first ([newLine, ...cart])
addToCart_Prepend(c, p, prods) ==
  IF HasLine(c, p)
  THEN IF FindLine(c, p).quantity < prods[p].stock
       THEN [i \in DOMAIN c |->
               IF c[i].id = p THEN [c[i] EXCEPT !.quantity = @ + 1] ELSE c[i]]
       ELSE c
  ELSE <<[id |-> p, price |-> prods[p].price, quantity |-> 1, discount |-> 0]>> \o c

\* addToCart taking the line from the product again on a merge
\* ({ ...product, quantity: item.quantity + 1, discount: item.discount })
addToCart_Reprice(c, p, prods) ==
  IF HasLine(c, p)
  THEN IF FindLine(c, p).quantity < prods[p].stock
       THEN [i \in DOMAIN c |->
               IF c[i].id = p
               THEN [c[i] EXCEPT !.quantity = @ + 1, !.price = prods[p].price]
               ELSE c[i]]
       ELSE c
  ELSE Append(c, [id |-> p, price |-> prods[p].price, quantity |-> 1, discount |-> 0])

\* addToCart appending a line whether or not the product has one
addToCart_NoMerge(c, p, prods) ==
  Append(c, [id |-> p, price |-> prods[p].price, quantity |-> 1, discount |-> 0])

addToCart(c, p, prods) ==
  IF HasLine(c, p)
  THEN IF FindLine(c, p).quantity < prods[p].stock
       THEN [i \in DOMAIN c |->
               IF c[i].id = p THEN [c[i] EXCEPT !.quantity = @ + 1] ELSE c[i]]
       ELSE c
  ELSE Append(c, [id |-> p, price |-> prods[p].price, quantity |-> 1, discount |-> 0])

addToCartAlert(c, p, prods) ==
  IF HasLine(c, p) /\ ~(FindLine(c, p).quantity < prods[p].stock)
  THEN "Not enough stock!" ELSE NoAlert

updateQuantity(c, id, delta, prods) ==
  [i \in DOMAIN c |->
     IF c[i].id = id
     THEN LET newQty == c[i].quantity + delta
          IN IF newQty > prods[id].stock THEN c[i]
             ELSE IF newQty < 1 THEN c[i]
             ELSE [c[i] EXCEPT !.quantity = newQty]
     ELSE c[i]]

\* parseInt of the text of a number box
IsNaNText(value) == value = <<>>
parseInt(value) == value[1]

\* updateQuantityExact refusing a number above the stock as updateQuantity does
\* (return item) instead of clamping to the stock
updateQuantityExact_NoClamp(c, id, value, prods) ==
  IF IsNaNText(value) THEN c
  ELSE LET qty == parseInt(value)
       IN [i \in DOMAIN c |->
             IF c[i].id = id
             THEN IF qty > prods[id].stock
                  THEN c[i]
                  ELSE IF qty < 1 THEN [c[i] EXCEPT !.quantity = 1]
                  ELSE [c[i] EXCEPT !.quantity = qty]
             ELSE c[i]]

updateQuantityExact(c, id, value, prods) ==
  IF IsNaNText(value) THEN c
  ELSE LET qty == parseInt(value)
       IN [i \in DOMAIN c |->
             IF c[i].id = id
             THEN IF qty > prods[id].stock
                  THEN [c[i] EXCEPT !.quantity = prods[id].stock]
                  ELSE IF qty < 1 THEN [c[i] EXCEPT !.quantity = 1]
                  ELSE [c[i] EXCEPT !.quantity = qty]
             ELSE c[i]]

updateQuantityExactAlert(c, id, value, prods) ==
  IF ~IsNaNText(value) /\ HasLine(c, id) /\ parseInt(value) > prods[id].stock
  THEN "Max stock available" ELSE NoAlert

Min(a, b) == IF a < b THEN a ELSE b
Max(a, b) == IF a > b THEN a ELSE b

\* updateDiscount without the lower bound (Math.min(100, discount))
updateDiscount_NoFloor(c, id, discount) ==
  LET validDiscount == Min(100, discount)
  IN [i \in DOMAIN c |->
        IF c[i].id = id THEN [c[i] EXCEPT !.discount = validDiscount] ELSE c[i]]

updateDiscount(c, id, discount) ==
  LET validDiscount == Min(100, Max(0, discount))
  IN [i \in DOMAIN c |->
        IF c[i].id = id THEN [c[i] EXCEPT !.discount = validDiscount] ELSE c[i]]

\* removeFromCart keeping a line that has a discount
removeFromCart_KeepsDiscounted(c, id) ==
  SelectSeq(c, LAMBDA item : item.id # id \/ item.discount > 0)

removeFromCart(c, id) == SelectSeq(c, LAMBDA item : item.id # id)

----------------------------------------------------------------------------
\* Totals

getDiscountedPrice(item) == (item.price * (100 - item.discount)) \div 100

itemsTotal(c) == SumSeq([i \in DOMAIN c |-> getDiscountedPrice(c[i]) * c[i].quantity])

\* Number(text) || 0
FeeOf(text) == IF text = <<>> THEN 0 ELSE text[1]

consultationFee(fees) == FeeOf(fees.consultation)
procedureCharges(fees) == FeeOf(fees.procedures)

\* finalTotal leaving the procedure charges out
finalTotal_NoProcedures(c, fees) == itemsTotal(c) + consultationFee(fees)

finalTotal(c, fees) == itemsTotal(c) + consultationFee(fees) + procedureCharges(fees)

----------------------------------------------------------------------------
\* Checkout: what handleCheckout computes before its first await

EmptyFees == [consultation |-> <<>>, procedures |-> <<>>]

\* The records sent to the backend: cart lines at their discounted price, then
\* one pseudo-item per positive fee.
processedCart(c, fees) ==
  [i \in DOMAIN c |-> [c[i] EXCEPT !.price = getDiscountedPrice(c[i])]]
  \o (IF consultationFee(fees) > 0
      THEN <<[id |-> "FEE-CONSULTATION", price |-> consultationFee(fees),
              quantity |-> 1, discount |-> 0]>>
      ELSE <<>>)
  \o (IF procedureCharges(fees) > 0
      THEN <<[id |-> "FEE-PROCEDURES", price |-> procedureCharges(fees),
              quantity |-> 1, discount |-> 0]>>
      ELSE <<>>)

\* The disabled attribute without the busy flag
checkoutDisabled_NoBusy(c, fees, busy) ==
  Len(c) = 0 /\ finalTotal(c, fees) = 0

\* The disabled attribute of the checkout button
checkoutDisabled(c, fees, busy) ==
  (Len(c) = 0 /\ finalTotal(c, fees) = 0) \/ busy

\* The customer / patient boxes when POS is mounted and after a sale
EmptyCustomer == [name |-> "", age |-> "", contact |-> "", diagnosis |-> ""]

\* renderCustomerFields: the boxes rendered for a business type
CustomerFields(type) ==
  IF type \in {"CLINIC", "PHARMACY"} THEN {"name", "diagnosis"}
  ELSE IF type = "RESTAURANT" THEN {"name", "age", "contact"}
  ELSE {"name"}

\* saleExtras without the RESTAURANT branch: a restaurant handled as a shop
saleExtras_NoRestaurant(type, cd) ==
  IF type \in {"CLINIC", "PHARMACY"}
  THEN [patientName |-> cd.name, diagnosis |-> cd.diagnosis]
  ELSE [customerName |-> cd.name]

\* handleCheckout: the extra fields of the sale record
saleExtras(type, cd) ==
  IF type \in {"CLINIC", "PHARMACY"}
  THEN [patientName |-> cd.name, diagnosis |-> cd.diagnosis]
  ELSE IF type = "RESTAURANT"
  THEN [customerName |-> cd.name, customerAge |-> cd.age,
        customerContact |-> cd.contact]
  ELSE [customerName |-> cd.name]

\* Number.prototype.toString: the decimal digits of a natural number
RECURSIVE Digits(_)
Digits(n) == IF n < 10 THEN <<n>> ELSE Append(Digits(n \div 10), n % 10)

\* String.prototype.slice(-6): the last six characters, all of them if fewer
LastSix(t) == IF Len(t) <= 6 THEN t ELSE SubSeq(t, Len(t) - 5, Len(t))

\* handleCheckout: `INV-${Math.floor(Math.random() * 1000000)}`, random being
\* the number Math.floor gives, from 0 to 999999
randomInvoiceId(random) == [prefix |-> "INV-", digits |-> Digits(random)]

\* handleCompleteSale: `INV-${Date.now().toString().slice(-6)}`
dateInvoiceId(now) == [prefix |-> "INV-", digits |-> LastSix(Digits(now))]

\* user.id of the cashier at this POS
Cashier == "cashier"

\* handleCompleteSale: the sale record built from the items, the total and the
\* extras it is given ({..., ...extras}), at the time now
saleData(items, total, extras, now) ==
  [sellerId |-> Cashier,
   items |-> [i \in DOMAIN items |->
                [productId |-> items[i].id,
                 quantity |-> items[i].quantity,
                 priceAtSale |-> items[i].price,
                 subtotal |-> items[i].price * items[i].quantity]],
   totalAmount |-> total,
   invoiceId |-> dateInvoiceId(now)] @@ extras

\* The value sent for a column: <<v>> for the value v of a field of the sale
\* record, <<>> for a field the record does not have (undefined, stored as null)
Column(sale, field) == IF field \in DOMAIN sale THEN <<sale[field]>> ELSE <<>>

\* createSale: the row of table sales made from the sale record
dbSale(sale) ==
  [seller_id |-> sale.sellerId,
   items |-> sale.items,
   total_amount |-> sale.totalAmount,
   invoice_id |-> sale.invoiceId,
   patient_name |-> Column(sale, "patientName"),
   diagnosis |-> Column(sale, "diagnosis"),
   customer_name |-> Column(sale, "customerName"),
   customer_age |-> Column(sale, "customerAge"),
   customer_contact |-> Column(sale, "customerContact")]

NoCheckout ==
  [cart |-> <<>>, items |-> <<>>, total |-> 0, fees |-> EmptyFees,
   customer |-> EmptyCustomer, extras |-> saleExtras("SHOP", EmptyCustomer),
   invoiceId |-> randomInvoiceId(0), now |-> 0,
   sale |-> saleData(<<>>, 0, saleExtras("SHOP", EmptyCustomer), 0),
   i |-> 0, edits |-> 0]

\* The row the checkout in flight inserts into table sales, from the sale
\* record handleCompleteSale built at the click
SaleRow(c) == dbSale(c.sale)

----------------------------------------------------------------------------
\* generatePDF: the invoice document

\* Number.prototype.toFixed(2): the amount rounded to whole cents
toFixed2(x) ==
  IF x >= 0 THEN ((x + 50) \div 100) * 100 ELSE 0 - (((0 - x) + 50) \div 100) * 100

\* One printed line per box that is not empty
TextLine(label, text) == IF text # "" THEN <<[label |-> label, text |-> text]>> ELSE <<>>

\* The customer lines printed under the cashier, by business type
customFields(type, cd) ==
  IF type \in {"CLINIC", "PHARMACY"}
  THEN TextLine("Patient", cd.name) \o TextLine("Diagnosis", cd.diagnosis)
  ELSE IF type = "RESTAURANT"
  THEN TextLine("Customer", cd.name) \o TextLine("Contact", cd.contact)
  ELSE TextLine("Customer", cd.name)

\* The rows of the table: one per cart line, then one per positive fee
tableData(items, fees) ==
  [i \in DOMAIN items |->
     [name |-> items[i].id,
      qty |-> items[i].quantity,
      price |-> toFixed2(getDiscountedPrice(items[i])),
      total |-> toFixed2(getDiscountedPrice(items[i]) * items[i].quantity)]]
  \o (IF consultationFee(fees) > 0
      THEN <<[name |-> "Consultation Fee", qty |-> 1,
              price |-> toFixed2(consultationFee(fees)),
              total |-> toFixed2(consultationFee(fees))]>>
      ELSE <<>>)
  \o (IF procedureCharges(fees) > 0
      THEN <<[name |-> "Procedure/Service Charges", qty |-> 1,
              price |-> toFixed2(procedureCharges(fees)),
              total |-> toFixed2(procedureCharges(fees))]>>
      ELSE <<>>)

\* The document saved for the checkout c: generatePDF(cart, finalTotal, ...)
\* with the cart, total, fees and customer data of the render that was clicked
invoice(type, c) ==
  [invoiceId |-> c.invoiceId,
   fields |-> customFields(type, c.customer),
   rows |-> tableData(c.cart, c.fees),
   total |-> toFixed2(c.total)]

----------------------------------------------------------------------------
\* Two sellers of the shop, each at a POS of their own

Sellers == {Cashier, "cashier2"}

\* No createSale call of the seller in flight
NoCall ==
  [pc |-> "idle", items |-> <<>>, total |-> 0, i |-> 0, currentStock |-> 0,
   log |-> <<>>]

NoCalls == [s \in Sellers |-> NoCall]

----------------------------------------------------------------------------
\* Initial state: POS just mounted, catalog fetched from the backend

Init ==
  /\ cart = <<>>
  /\ clinicFees = EmptyFees
  /\ loading = FALSE
  /\ isSuccess = FALSE
  /\ businessType \in BusinessTypes
  /\ dbProducts = InitialCatalog
  /\ products = InitialCatalog
  /\ dbSales = <<>>
  /\ failures = 0
  /\ customerData = EmptyCustomer
  /\ doc = <<>>
  /\ clears = 0
  /\ calls = NoCalls
  /\ pc = "idle"
  /\ ck = NoCheckout
  /\ ev = Event("mount", "", <<>>, NoAlert)

----------------------------------------------------------------------------
\* User events on the cart

Backend == <<dbProducts, dbSales>>
Flight == <<pc, ck, failures>>
Desk == <<customerData, doc, clears, calls>>

\* The rows of table sales this cashier sold
OwnSales == SelectSeq(dbSales, LAMBDA s : s.seller_id = Cashier)

SessionOpen == Len(OwnSales) < MaxSales \/ pc # "idle"

\* A user event on the cart or the fee boxes: counted while a checkout is in
\* flight.
UserEdit ==
  /\ SessionOpen
  /\ pc # "idle" => ck.edits < MaxFlightEdits
  /\ ck' = IF pc = "idle" THEN ck ELSE [ck EXCEPT !.edits = @ + 1]
  /\ UNCHANGED <<pc, failures>>

AddItem(p) ==
  /\ UserEdit
  /\ p \in availableProducts(products)
  /\ cart' = addToCart(cart, p, products)
  /\ ev' = Event("addToCart", p, <<>>, addToCartAlert(cart, p, products))
  /\ UNCHANGED <<clinicFees, loading, isSuccess, products, businessType, Backend, Desk>>

AdjustQuantity(id, delta) ==
  /\ UserEdit
  /\ HasLine(cart, id)
  /\ cart' = updateQuantity(cart, id, delta, products)
  /\ ev' = Event("updateQuantity", id, <<delta>>, NoAlert)
  /\ UNCHANGED <<clinicFees, loading, isSuccess, products, businessType, Backend, Desk>>

SetQuantity(id, value) ==
  /\ UserEdit
  /\ HasLine(cart, id)
  /\ cart' = updateQuantityExact(cart, id, value, products)
  /\ ev' = Event("updateQuantityExact", id, value,
                 updateQuantityExactAlert(cart, id, value, products))
  /\ UNCHANGED <<clinicFees, loading, isSuccess, products, businessType, Backend, Desk>>

SetDiscount(id, discount) ==
  /\ UserEdit
  /\ HasLine(cart, id)
  /\ cart' = updateDiscount(cart, id, discount)
  /\ ev' = Event("updateDiscount", id, <<discount>>, NoAlert)
  /\ UNCHANGED <<clinicFees, loading, isSuccess, products, businessType, Backend, Desk>>

RemoveItem(id) ==
  /\ UserEdit
  /\ HasLine(cart, id)
  /\ cart' = removeFromCart(cart, id)
  /\ ev' = Event("removeFromCart", id, <<>>, NoAlert)
  /\ UNCHANGED <<clinicFees, loading, isSuccess, products, businessType, Backend, Desk>>

\* removeFromCart called with the id of a product that has no line
RemoveMissing(id) ==
  /\ UserEdit
  /\ ~HasLine(cart, id)
  /\ cart' = removeFromCart(cart, id)
  /\ ev' = Event("removeFromCart", id, <<>>, NoAlert)
  /\ UNCHANGED <<clinicFees, loading, isSuccess, products, businessType, Backend, Desk>>

\* The fee boxes are rendered for a clinic only.
SetConsultation(text) ==
  /\ UserEdit
  /\ businessType = "CLINIC"
  /\ clinicFees' = [clinicFees EXCEPT !.consultation = text]
  /\ ev' = Event("setConsultation", "", text, NoAlert)
  /\ UNCHANGED <<cart, loading, isSuccess, products, businessType, Backend, Desk>>

SetProcedures(text) ==
  /\ UserEdit
  /\ businessType = "CLINIC"
  /\ clinicFees' = [clinicFees EXCEPT !.procedures = text]
  /\ ev' = Event("setProcedures", "", text, NoAlert)
  /\ UNCHANGED <<cart, loading, isSuccess, products, businessType, Backend, Desk>>

\* Texts typed into a customer / patient box
CustomerTexts(field) ==
  {"", CASE field = "name" -> "Ann"
         [] field = "age" -> "42"
         [] field = "contact" -> "555"
         [] field = "diagnosis" -> "flu"}

\* onChange of a customer / patient box; a business type renders its own boxes.
SetCustomerData(field, text) ==
  /\ UserEdit
  /\ field \in CustomerFields(businessType)
  /\ customerData' = [customerData EXCEPT ![field] = text]
  /\ ev' = Event("setCustomerData", field, <<>>, NoAlert)
  /\ UNCHANGED <<cart, clinicFees, loading, isSuccess, products, businessType, Backend,
                 doc, clears, calls>>

\* setTimeout(() => setIsSuccess(false), 3000)
SuccessTimeout ==
  /\ isSuccess
  /\ isSuccess' = FALSE
  /\ ev' = Event("successTimeout", "", <<>>, NoAlert)
  /\ UNCHANGED <<cart, clinicFees, loading, products, businessType, Flight, Backend, Desk>>

----------------------------------------------------------------------------
\* Checkout: one action per stretch of handleCheckout between two awaits

\* What Math.random gives (as the number Math.floor makes of it) and what
\* Date.now gives (the seconds of a day of November 2023, in place of the
\* thirteen digits of the milliseconds: slice(-6) looks at the last six digits
\* alone)
TypicalDraw == [random |-> 12345, now |-> 1700654321]
Draws == {TypicalDraw}

\* Where createSale goes after the stock of item i is dealt with
AfterItem(c) ==
  IF c.i < Len(c.items) THEN "stock" ELSE "insert"

\* ClickCheckout with neither the button nor the handler looking at the empty
\* transaction
ClickCheckout_NoEmptyGuard(draw) ==
  /\ SessionOpen
  /\ IF loading
     THEN /\ ev' = Event("checkout.disabled", "", <<>>, NoAlert)
          /\ UNCHANGED <<loading, pc, ck>>
     ELSE /\ loading' = TRUE
          /\ ck' = [cart |-> cart,
                    items |-> processedCart(cart, clinicFees),
                    total |-> finalTotal(cart, clinicFees),
                    fees |-> clinicFees,
                    customer |-> customerData,
                    extras |-> saleExtras(businessType, customerData),
                    invoiceId |-> randomInvoiceId(draw.random),
                    now |-> draw.now,
                    sale |-> saleData(processedCart(cart, clinicFees),
                                      finalTotal(cart, clinicFees),
                                      saleExtras(businessType, customerData),
                                      draw.now),
                    i |-> 1,
                    edits |-> 0]
          /\ pc' = IF processedCart(cart, clinicFees) = <<>> THEN "insert" ELSE "stock"
          /\ ev' = Event("checkout.submit", "", <<>>, NoAlert)
  /\ UNCHANGED <<cart, clinicFees, isSuccess, products, businessType, Backend, failures,
                 Desk>>

\* A click on the checkout button. A disabled button delivers no click; the
\* handler returns at once on an empty transaction; otherwise it sets the busy
\* flag, draws the invoice number, captures cart, fees and total and calls
\* onCompleteSale, which reads the clock before its first await. draw is what
\* Math.random and Date.now give this call.
ClickCheckout(draw) ==
  /\ SessionOpen
  /\ IF checkoutDisabled(cart, clinicFees, loading)
     THEN /\ ev' = Event("checkout.disabled", "", <<>>, NoAlert)
          /\ UNCHANGED <<loading, pc, ck>>
     ELSE IF Len(cart) = 0 /\ finalTotal(cart, clinicFees) = 0
     THEN /\ ev' = Event("checkout.empty", "", <<>>, NoAlert)
          /\ UNCHANGED <<loading, pc, ck>>
     ELSE /\ loading' = TRUE
          /\ ck' = [cart |-> cart,
                    items |-> processedCart(cart, clinicFees),
                    total |-> finalTotal(cart, clinicFees),
                    fees |-> clinicFees,
                    customer |-> customerData,
                    extras |-> saleExtras(businessType, customerData),
                    invoiceId |-> randomInvoiceId(draw.random),
                    now |-> draw.now,
                    sale |-> saleData(processedCart(cart, clinicFees),
                                      finalTotal(cart, clinicFees),
                                      saleExtras(businessType, customerData),
                                      draw.now),
                    i |-> 1,
                    edits |-> 0]
          /\ pc' = IF processedCart(cart, clinicFees) = <<>> THEN "insert" ELSE "stock"
          /\ ev' = Event("checkout.submit", "", <<>>, NoAlert)
  /\ UNCHANGED <<cart, clinicFees, isSuccess, products, businessType, Backend, failures,
                 Desk>>

\* UpdateStock writing stock - 1 whatever the quantity of the line
UpdateStock_ByOne(ok) ==
  /\ pc = "stock"
  /\ LET item == ck.items[ck.i]
     IN dbProducts' =
          IF ok /\ item.id \in ProductIds
          THEN LET currentStock == dbProducts[item.id].stock
               IN [dbProducts EXCEPT ![item.id].stock = currentStock - 1]
          ELSE dbProducts
  /\ ck' = [ck EXCEPT !.i = @ + 1]
  /\ pc' = AfterItem(ck)
  /\ ev' = Event(IF ok THEN "createSale.stock" ELSE "createSale.stock.failed",
                 ck.items[ck.i].id, <<>>, NoAlert)
  /\ UNCHANGED <<cart, clinicFees, loading, isSuccess, products, businessType, dbSales,
                 failures, Desk>>

\* createSale, step 1 for item i: select the product's stock and write back
\* stock - quantity. No row (a fee pseudo-item) or a failed select gives no
\* data and the item is skipped; the result of the update is not looked at,
\* so a failed update leaves the stock as it was as well.
UpdateStock(ok) ==
  /\ pc = "stock"
  /\ LET item == ck.items[ck.i]
     IN dbProducts' =
          IF ok /\ item.id \in ProductIds
          THEN LET currentStock == dbProducts[item.id].stock
               IN [dbProducts EXCEPT ![item.id].stock = currentStock - item.quantity]
          ELSE dbProducts
  /\ ck' = [ck EXCEPT !.i = @ + 1]
  /\ pc' = AfterItem(ck)
  /\ ev' = Event(IF ok THEN "createSale.stock" ELSE "createSale.stock.failed",
                 ck.items[ck.i].id, <<>>, NoAlert)
  /\ UNCHANGED <<cart, clinicFees, loading, isSuccess, products, businessType, dbSales,
                 failures, Desk>>

\* InsertSale with the cart reset in the finally block, so on failure too
InsertSale_ClearsCart(ok) ==
  /\ pc = "insert"
  /\ IF ok
     THEN /\ dbSales' = Append(dbSales, SaleRow(ck))
          /\ pc' = "refresh"
          /\ ck' = ck
          /\ ev' = Event("createSale.insert", "", <<>>, NoAlert)
          /\ UNCHANGED <<cart, loading, failures>>
     ELSE /\ failures < MaxFailures
          /\ failures' = failures + 1
          /\ dbSales' = dbSales
          /\ pc' = "idle"
          /\ ck' = NoCheckout
          /\ loading' = FALSE
          /\ cart' = <<>>
          /\ ev' = Event("checkout.failed", "", <<>>, "Transaction Failed!")
  /\ UNCHANGED <<clinicFees, isSuccess, products, businessType, dbProducts, Desk>>

\* InsertSale with the insert's error not looked at (as the stock update's is
\* not): createSale returns and the checkout goes on
InsertSale_ErrorIgnored(ok) ==
  /\ pc = "insert"
  /\ dbSales' = IF ok THEN Append(dbSales, SaleRow(ck)) ELSE dbSales
  /\ pc' = "refresh"
  /\ ck' = ck
  /\ ev' = Event("createSale.insert", "", <<>>, NoAlert)
  /\ UNCHANGED <<cart, clinicFees, loading, isSuccess, products, businessType,
                 dbProducts, failures, Desk>>

\* InsertSale sending the insert a second time (a retry of a request that had
\* gone through)
InsertSale_Twice(ok) ==
  /\ pc = "insert"
  /\ IF ok
     THEN /\ dbSales' = Append(Append(dbSales, SaleRow(ck)), SaleRow(ck))
          /\ pc' = "refresh"
          /\ ck' = ck
          /\ ev' = Event("createSale.insert", "", <<>>, NoAlert)
          /\ UNCHANGED <<loading, failures>>
     ELSE /\ failures < MaxFailures
          /\ failures' = failures + 1
          /\ dbSales' = dbSales
          /\ pc' = "idle"
          /\ ck' = NoCheckout
          /\ loading' = FALSE
          /\ ev' = Event("checkout.failed", "", <<>>, "Transaction Failed!")
  /\ UNCHANGED <<cart, clinicFees, isSuccess, products, businessType, dbProducts, Desk>>

\* InsertSale with the busy flag cleared at the end of the try block alone (no
\* finally): after a failed insert the flag stays set
InsertSale_NoFinally(ok) ==
  /\ pc = "insert"
  /\ IF ok
     THEN /\ dbSales' = Append(dbSales, SaleRow(ck))
          /\ pc' = "refresh"
          /\ ck' = ck
          /\ ev' = Event("createSale.insert", "", <<>>, NoAlert)
          /\ UNCHANGED <<loading, failures>>
     ELSE /\ failures < MaxFailures
          /\ failures' = failures + 1
          /\ dbSales' = dbSales
          /\ pc' = "idle"
          /\ ck' = NoCheckout
          /\ loading' = loading
          /\ ev' = Event("checkout.failed", "", <<>>, "Transaction Failed!")
  /\ UNCHANGED <<cart, clinicFees, isSuccess, products, businessType, dbProducts, Desk>>

\* createSale, step 2: insert the sale record. An error is thrown through
\* handleCompleteSale into handleCheckout's catch and finally.
InsertSale(ok) ==
  /\ pc = "insert"
  /\ IF ok
     THEN /\ dbSales' = Append(dbSales, SaleRow(ck))
          /\ pc' = "refresh"
          /\ ck' = ck
          /\ ev' = Event("createSale.insert", "", <<>>, NoAlert)
          /\ UNCHANGED <<loading, failures>>
     ELSE /\ failures < MaxFailures
          /\ failures' = failures + 1
          /\ dbSales' = dbSales
          /\ pc' = "idle"
          /\ ck' = NoCheckout
          /\ loading' = FALSE
          /\ ev' = Event("checkout.failed", "", <<>>, "Transaction Failed!")
  /\ UNCHANGED <<cart, clinicFees, isSuccess, products, businessType, dbProducts, Desk>>

\* refreshData: fetch products and sales and hand them to the views (a failed
\* fetch is caught and logged); handleCompleteSale returns and handleCheckout
\* calls generatePDF, which waits for the logo image.
FetchData(ok) ==
  /\ pc = "refresh"
  /\ products' = IF ok THEN dbProducts ELSE products
  /\ pc' = "pdf"
  /\ ev' = Event("refreshData", "", <<>>, NoAlert)
  /\ UNCHANGED <<cart, clinicFees, loading, isSuccess, businessType, ck, Backend, failures,
                 Desk>>

\* FinishPDF without the inner try/catch: an error of generatePDF reaches the
\* outer catch
FinishPDF_NoInnerCatch(ok) ==
  /\ pc = "pdf"
  /\ IF ok
     THEN /\ doc' = <<invoice(businessType, ck)>>
          /\ cart' = <<>>
          /\ clinicFees' = EmptyFees
          /\ customerData' = EmptyCustomer
          /\ isSuccess' = TRUE
          /\ ev' = Event("checkout.done", "", <<>>, NoAlert)
     ELSE /\ UNCHANGED <<cart, clinicFees, isSuccess, customerData, doc>>
          /\ ev' = Event("checkout.done.nopdf", "", <<>>, "Transaction Failed!")
  /\ loading' = FALSE
  /\ pc' = "idle"
  /\ ck' = NoCheckout
  /\ UNCHANGED <<products, businessType, Backend, failures, clears, calls>>

\* FinishPDF with a reset of the cart that fails on a cart that is empty
FinishPDF_EmptyCartError(ok) ==
  /\ pc = "pdf"
  /\ doc' = IF ok THEN <<invoice(businessType, ck)>> ELSE doc
  /\ cart' = <<>>
  /\ clinicFees' = EmptyFees
  /\ customerData' = EmptyCustomer
  /\ isSuccess' = (cart # <<>>)
  /\ loading' = FALSE
  /\ pc' = "idle"
  /\ ck' = NoCheckout
  /\ ev' = Event(IF ok THEN "checkout.done" ELSE "checkout.done.nopdf", "", <<>>,
                 IF cart = <<>> THEN "Transaction Failed!" ELSE NoAlert)
  /\ UNCHANGED <<products, businessType, Backend, failures, clears, calls>>

\* generatePDF returns or throws (caught and logged); the cart, the fees and
\* the customer data are reset, the success indicator is shown, the busy flag
\* is cleared.
FinishPDF(ok) ==
  /\ pc = "pdf"
  /\ doc' = IF ok THEN <<invoice(businessType, ck)>> ELSE doc
  /\ cart' = <<>>
  /\ clinicFees' = EmptyFees
  /\ customerData' = EmptyCustomer
  /\ isSuccess' = TRUE
  /\ loading' = FALSE
  /\ pc' = "idle"
  /\ ck' = NoCheckout
  /\ ev' = Event(IF ok THEN "checkout.done" ELSE "checkout.done.nopdf", "", <<>>, NoAlert)
  /\ UNCHANGED <<products, businessType, Backend, failures, clears, calls>>

\* handleClearHistory by the administrator at another desk, the question
\* answered with yes: clearSalesHistory deletes every row of table sales of the
\* shop, or fails and the administrator is told.
ClearHistory(ok) ==
  /\ clears < MaxClears
  /\ IF ok
     THEN /\ dbSales' = <<>>
          /\ clears' = clears + 1
          /\ ev' = Event("clearSalesHistory", "", <<>>, NoAlert)
     ELSE /\ UNCHANGED <<dbSales, clears>>
          /\ ev' = Event("clearSalesHistory", "", <<>>, "Failed to clear history")
  /\ UNCHANGED <<cart, clinicFees, loading, isSuccess, products, businessType, Flight,
                 dbProducts, customerData, doc, calls>>

\* handleSaveProduct by the administrator at another desk: saveProduct writes
\* the row of the product with the price typed (the form was loaded just
\* before, so the other columns are written as they are).
SaveProduct(p, price) ==
  /\ SessionOpen
  /\ dbProducts[p].price # price
  /\ dbProducts' = [dbProducts EXCEPT ![p].price = price]
  /\ ev' = Event("saveProduct", p, <<price>>, NoAlert)
  /\ UNCHANGED <<cart, clinicFees, loading, isSuccess, products, businessType, Flight,
                 dbSales, Desk>>

----------------------------------------------------------------------------
\* Spec: the session of a cashier at the cart who leaves the customer boxes
\* empty, with nobody clearing the sales history.

Next ==
  \/ \E p \in ProductIds : AddItem(p)
  \/ \E id \in ProductIds, delta \in {-1, 1} : AdjustQuantity(id, delta)
  \/ \E id \in ProductIds, value \in QuantityTexts : SetQuantity(id, value)
  \/ \E id \in ProductIds, discount \in DiscountInputs : SetDiscount(id, discount)
  \/ \E id \in ProductIds : RemoveItem(id)
  \/ \E text \in ConsultationTexts : SetConsultation(text)
  \/ \E text \in ProcedureTexts : SetProcedures(text)
  \/ SuccessTimeout
  \/ \E draw \in Draws : ClickCheckout(draw)
  \/ \E ok \in BOOLEAN : UpdateStock(ok)
  \/ \E ok \in BOOLEAN : InsertSale(ok)
  \/ \E ok \in BOOLEAN : FetchData(ok)
  \/ \E ok \in BOOLEAN : FinishPDF(ok)

Spec == Init /\ [][Next]_vars

----------------------------------------------------------------------------
\* SpecLedger: the cart ledger and the totals alone, no checkout, over every
\* catalog of the two products with at most MaxStock in stock, with a
\* discount of 10 among the numbers typed, and with removeFromCart applied to
\* an id that has no line as well.

LedgerCatalogs ==
  {[p \in ProductIds |-> [price |-> InitialCatalog[p].price, stock |-> st[p]]] :
     st \in [ProductIds -> 0 .. MaxStock]}

LedgerDiscountInputs == DiscountInputs \cup {10}

InitLedger ==
  /\ cart = <<>>
  /\ clinicFees = EmptyFees
  /\ loading = FALSE
  /\ isSuccess = FALSE
  /\ businessType \in BusinessTypes
  /\ products \in LedgerCatalogs
  /\ dbProducts = products
  /\ dbSales = <<>>
  /\ failures = 0
  /\ customerData = EmptyCustomer
  /\ doc = <<>>
  /\ clears = 0
  /\ calls = NoCalls
  /\ pc = "idle"
  /\ ck = NoCheckout
  /\ ev = Event("mount", "", <<>>, NoAlert)

NextLedger ==
  \/ \E p \in ProductIds : AddItem(p)
  \/ \E id \in ProductIds, delta \in {-1, 1} : AdjustQuantity(id, delta)
  \/ \E id \in ProductIds, value \in QuantityTexts : SetQuantity(id, value)
  \/ \E id \in ProductIds, discount \in LedgerDiscountInputs : SetDiscount(id, discount)
  \/ \E id \in ProductIds : RemoveItem(id)
  \/ \E id \in ProductIds : RemoveMissing(id)
  \/ \E text \in ConsultationTexts : SetConsultation(text)
  \/ \E text \in ProcedureTexts : SetProcedures(text)

SpecLedger == InitLedger /\ [][NextLedger]_vars

----------------------------------------------------------------------------
\* SpecDesk: the session of a cashier who adds products, gives a discount of
\* 10, fills the customer boxes and the fee boxes and checks out.

DeskConsultationTexts == {<<>>, <<200000>>}
DeskProcedureTexts == {<<>>, <<150000>>}

NextDesk ==
  \/ \E p \in ProductIds : AddItem(p)
  \/ \E id \in ProductIds : SetDiscount(id, 10)
  \/ \E text \in DeskConsultationTexts : SetConsultation(text)
  \/ \E text \in DeskProcedureTexts : SetProcedures(text)
  \/ \E field \in DOMAIN EmptyCustomer :
        \E text \in CustomerTexts(field) : SetCustomerData(field, text)
  \/ \E draw \in Draws : ClickCheckout(draw)
  \/ \E ok \in BOOLEAN : UpdateStock(ok)
  \/ \E ok \in BOOLEAN : InsertSale(ok)
  \/ \E ok \in BOOLEAN : FetchData(ok)
  \/ \E ok \in BOOLEAN : FinishPDF(ok)

SpecDesk == Init /\ [][NextDesk]_vars

----------------------------------------------------------------------------
\* SpecHistory: the session of a cashier who adds and removes products, types
\* a consultation fee and checks out, in a shop whose sales history holds the
\* row of an earlier sale by another seller and may be cleared by the
\* administrator.

\* The row of a sale of one A by the administrator, before POS was mounted
OldSale ==
  [dbSale(saleData(<<[id |-> "A", price |-> InitialCatalog["A"].price,
                      quantity |-> 1, discount |-> 0]>>,
                   InitialCatalog["A"].price,
                   saleExtras("SHOP", EmptyCustomer),
                   TypicalDraw.now - 1))
     EXCEPT !.seller_id = "admin"]

InitHistory ==
  /\ cart = <<>>
  /\ clinicFees = EmptyFees
  /\ loading = FALSE
  /\ isSuccess = FALSE
  /\ businessType \in BusinessTypes
  /\ dbProducts = InitialCatalog
  /\ products = InitialCatalog
  /\ dbSales = <<OldSale>>
  /\ failures = 0
  /\ customerData = EmptyCustomer
  /\ doc = <<>>
  /\ clears = 0
  /\ calls = NoCalls
  /\ pc = "idle"
  /\ ck = NoCheckout
  /\ ev = Event("mount", "", <<>>, NoAlert)

NextHistory ==
  \/ \E p \in ProductIds : AddItem(p)
  \/ \E id \in ProductIds : RemoveItem(id)
  \/ \E text \in DeskConsultationTexts : SetConsultation(text)
  \/ \E draw \in Draws : ClickCheckout(draw)
  \/ \E ok \in BOOLEAN : UpdateStock(ok)
  \/ \E ok \in BOOLEAN : InsertSale(ok)
  \/ \E ok \in BOOLEAN : FetchData(ok)
  \/ \E ok \in BOOLEAN : FinishPDF(ok)
  \/ \E ok \in BOOLEAN : ClearHistory(ok)

SpecHistory == InitHistory /\ [][NextHistory]_vars

----------------------------------------------------------------------------
\* SpecCatalog: the session of a cashier in a shop where A costs 10.00 or 9.99
\* when POS is mounted and the administrator changes the price of A between
\* the two while the cashier adds products, changes quantities, gives a
\* discount of 10 and checks out.

\* Prices the administrator gives product A
SavedPrices == {InitialCatalog["A"].price, 99900}

CatalogQuantityTexts == {<<1>>, <<MaxStock>>}

InitCatalog ==
  /\ cart = <<>>
  /\ clinicFees = EmptyFees
  /\ loading = FALSE
  /\ isSuccess = FALSE
  /\ businessType \in BusinessTypes
  /\ dbProducts \in {[InitialCatalog EXCEPT !["A"].price = price] : price \in SavedPrices}
  /\ products = dbProducts
  /\ dbSales = <<>>
  /\ failures = 0
  /\ customerData = EmptyCustomer
  /\ doc = <<>>
  /\ clears = 0
  /\ calls = NoCalls
  /\ pc = "idle"
  /\ ck = NoCheckout
  /\ ev = Event("mount", "", <<>>, NoAlert)

NextCatalog ==
  \/ \E p \in ProductIds : AddItem(p)
  \/ \E id \in ProductIds, delta \in {-1, 1} : AdjustQuantity(id, delta)
  \/ \E id \in ProductIds, value \in CatalogQuantityTexts : SetQuantity(id, value)
  \/ \E id \in ProductIds : SetDiscount(id, 10)
  \/ \E price \in SavedPrices : SaveProduct("A", price)
  \/ \E draw \in Draws : ClickCheckout(draw)
  \/ \E ok \in BOOLEAN : UpdateStock(ok)
  \/ \E ok \in BOOLEAN : InsertSale(ok)
  \/ \E ok \in BOOLEAN : FetchData(ok)
  \/ \E ok \in BOOLEAN : FinishPDF(ok)

SpecCatalog == InitCatalog /\ [][NextCatalog]_vars

----------------------------------------------------------------------------
\* SpecInvoice: the session of a cashier who adds and removes products and
\* checks out, with two numbers Math.random may give and two times of the
\* click.

InvoiceDraws ==
  {[random |-> random, now |-> now] :
     random \in {TypicalDraw.random, 654321}, now \in {TypicalDraw.now, 1700012345}}

NextInvoice ==
  \/ \E p \in ProductIds : AddItem(p)
  \/ \E id \in ProductIds : RemoveItem(id)
  \/ \E draw \in InvoiceDraws : ClickCheckout(draw)
  \/ \E ok \in BOOLEAN : UpdateStock(ok)
  \/ \E ok \in BOOLEAN : InsertSale(ok)
  \/ \E ok \in BOOLEAN : FetchData(ok)
  \/ \E ok \in BOOLEAN : FinishPDF(ok)

SpecInvoice == Init /\ [][NextInvoice]_vars

----------------------------------------------------------------------------
\* SpecRace: two sellers check out at the same time, each a cart made from the
\* catalog as mounted. createSale is taken request by request: the select of
\* a product's stock and the update that writes stock - quantity are two
\* requests, and the requests of the two calls interleave at the backend.

\* The carts a seller checks out: one A, as many A as are in stock, one A and
\* one B
RaceCarts ==
  LET oneA == addToCart(<<>>, "A", InitialCatalog)
  IN {oneA,
      updateQuantityExact(oneA, "A", <<MaxStock>>, InitialCatalog),
      addToCart(oneA, "B", InitialCatalog)}

\* Where the call goes after the stock of item i is dealt with
AfterRound(c) == IF c.i < Len(c.items) THEN "select" ELSE "insert"

\* handleCheckout -> handleCompleteSale -> createSale of seller s, up to the
\* first request
RaceStart(s, c) ==
  /\ calls[s].pc = "idle"
  /\ calls' = [calls EXCEPT ![s] =
                 [pc |-> "select", items |-> processedCart(c, EmptyFees),
                  total |-> finalTotal(c, EmptyFees), i |-> 1, currentStock |-> 0,
                  log |-> <<>>]]
  /\ ev' = Event("checkout.submit", "", <<s>>, NoAlert)
  /\ UNCHANGED <<cart, clinicFees, loading, isSuccess, products, businessType, Flight,
                 Backend, customerData, doc, clears>>

\* createSale of seller s, the select of the stock of item i: with a row the
\* call holds currentStock; with none (a failed request) the item is skipped
RaceSelect(s, ok) ==
  /\ calls[s].pc = "select"
  /\ LET c == calls[s]
         item == c.items[c.i]
     IN /\ calls' = [calls EXCEPT ![s] =
                       IF ok /\ item.id \in ProductIds
                       THEN [c EXCEPT !.pc = "update",
                                      !.currentStock = dbProducts[item.id].stock]
                       ELSE [c EXCEPT !.pc = AfterRound(c), !.i = @ + 1,
                                      !.log = Append(@, [id |-> item.id, read |-> <<>>,
                                                         wrote |-> FALSE])]]
        /\ ev' = Event("createSale.select", item.id, <<s>>, NoAlert)
  /\ UNCHANGED <<cart, clinicFees, loading, isSuccess, products, businessType, Flight,
                 Backend, customerData, doc, clears>>

\* RaceUpdate decrementing in the database (stock = stock - quantity) instead
\* of writing the number computed from the stock read
RaceUpdate_InDatabase(s, ok) ==
  /\ calls[s].pc = "update"
  /\ LET c == calls[s]
         item == c.items[c.i]
     IN /\ dbProducts' =
             IF ok
             THEN [dbProducts EXCEPT
                     ![item.id].stock = dbProducts[item.id].stock - item.quantity]
             ELSE dbProducts
        /\ calls' = [calls EXCEPT ![s] =
                       [c EXCEPT !.pc = AfterRound(c), !.i = @ + 1,
                                 !.log = Append(@, [id |-> item.id,
                                                    read |-> <<c.currentStock>>,
                                                    wrote |-> ok])]]
        /\ ev' = Event("createSale.update", item.id, <<s>>, NoAlert)
  /\ UNCHANGED <<cart, clinicFees, loading, isSuccess, products, businessType, Flight,
                 dbSales, customerData, doc, clears>>

\* createSale of seller s, the update of the stock of item i: the row gets
\* currentStock - quantity; the result of the request is not looked at
RaceUpdate(s, ok) ==
  /\ calls[s].pc = "update"
  /\ LET c == calls[s]
         item == c.items[c.i]
     IN /\ dbProducts' =
             IF ok
             THEN [dbProducts EXCEPT ![item.id].stock = c.currentStock - item.quantity]
             ELSE dbProducts
        /\ calls' = [calls EXCEPT ![s] =
                       [c EXCEPT !.pc = AfterRound(c), !.i = @ + 1,
                                 !.log = Append(@, [id |-> item.id,
                                                    read |-> <<c.currentStock>>,
                                                    wrote |-> ok])]]
        /\ ev' = Event("createSale.update", item.id, <<s>>, NoAlert)
  /\ UNCHANGED <<cart, clinicFees, loading, isSuccess, products, businessType, Flight,
                 dbSales, customerData, doc, clears>>

\* createSale of seller s, the insert of the sale row; a failed insert throws
\* and the seller, the cart kept, may check out again
RaceInsert(s, ok) ==
  /\ calls[s].pc = "insert"
  /\ LET c == calls[s]
     IN IF ok
        THEN /\ dbSales' =
                  Append(dbSales,
                         dbSale([saleData(c.items, c.total,
                                          saleExtras(businessType, EmptyCustomer),
                                          TypicalDraw.now)
                                   EXCEPT !.sellerId = s]))
             /\ calls' = [calls EXCEPT ![s].pc = "done"]
             /\ failures' = failures
             /\ ev' = Event("createSale.row", "", <<s>>, NoAlert)
        ELSE /\ failures < MaxFailures
             /\ failures' = failures + 1
             /\ dbSales' = dbSales
             /\ calls' = [calls EXCEPT ![s] = NoCall]
             /\ ev' = Event("createSale.row", "", <<s>>, "Transaction Failed!")
  /\ UNCHANGED <<cart, clinicFees, loading, isSuccess, products, businessType, pc, ck,
                 dbProducts, customerData, doc, clears>>

NextRace ==
  \/ \E s \in Sellers, c \in RaceCarts : RaceStart(s, c)
  \/ \E s \in Sellers, ok \in BOOLEAN : RaceSelect(s, ok)
  \/ \E s \in Sellers, ok \in BOOLEAN : RaceUpdate(s, ok)
  \/ \E s \in Sellers, ok \in BOOLEAN : RaceInsert(s, ok)

SpecRace == Init /\ [][NextRace]_vars

----------------------------------------------------------------------------
\* SpecLive: the session of a cashier who adds products, types a consultation
\* fee and checks out, in which every request of a checkout in flight is
\* answered in the end: each await of handleCheckout (the stock requests and
\* the insert of createSale, the fetch of refreshData, generatePDF) returns or
\* throws.

NextLive ==
  \/ \E p \in ProductIds : AddItem(p)
  \/ \E text \in DeskConsultationTexts : SetConsultation(text)
  \/ SuccessTimeout
  \/ \E draw \in Draws : ClickCheckout(draw)
  \/ \E ok \in BOOLEAN : UpdateStock(ok)
  \/ \E ok \in BOOLEAN : InsertSale(ok)
  \/ \E ok \in BOOLEAN : FetchData(ok)
  \/ \E ok \in BOOLEAN : FinishPDF(ok)

Answered ==
  /\ WF_vars(\E ok \in BOOLEAN : UpdateStock(ok))
  /\ WF_vars(\E ok \in BOOLEAN : InsertSale(ok))
  /\ WF_vars(\E ok \in BOOLEAN : FetchData(ok))
  /\ WF_vars(\E ok \in BOOLEAN : FinishPDF(ok))

SpecLive == Init /\ [][NextLive]_vars /\ Answered

----------------------------------------------------------------------------
\* Vocabulary of the properties

\* The step is a click on the checkout button.
IsClick(e) == e.op \in {"checkout.disabled", "checkout.empty", "checkout.submit"}

\* The step ends a checkout with a failed sale insert.
FailureStep == failures' = failures + 1

\* The sale record of the checkout in flight is in the sales table.
Persisted == dbSales # <<>> /\ dbSales[Len(dbSales)] = SaleRow(ck)

\* Line i of cart d is line i of cart c but for its quantity, which is q.
SameButQuantity(d, c, i, q) == d[i] = [c[i] EXCEPT !.quantity = q]

----------------------------------------------------------------------------
\* C1 (as amended): whenever the sale insert of a checkout fails, the checkout
\* returns to idle with the busy flag cleared and the alert "Transaction
\* Failed!", the failing checkout changes no cart line (so with no edit made in
\* flight the cart is the one present at the click), and document generation
\* was not started: the call was still at the insert.
C1_FailureKeepsCart ==
  [][FailureStep =>
       /\ pc = "insert" /\ pc' = "idle" /\ ~loading'
       /\ ev'.alert = "Transaction Failed!"
       /\ cart' = cart
       /\ (ck.edits = 0 => cart' = ck.cart)
       /\ dbSales' = dbSales]_vars

\* C1 as stated: after a failed sale insert the cart lines are exactly those
\* present when checkout was clicked.
C1_CartAsClicked ==
  [][FailureStep => cart' = ck.cart]_vars

C1_Witness ==
  /\ ev.op = "checkout.failed" /\ ev.alert = "Transaction Failed!"
  /\ pc = "idle" /\ ~loading /\ Len(cart) = 2 /\ dbSales = <<>>

\* The step belongs to a checkout (not to the user editing the cart).
IsCheckoutStep(e) ==
  e.op \in {"checkout.submit", "createSale.stock", "createSale.stock.failed",
            "createSale.insert", "checkout.failed", "refreshData", "checkout.done",
            "checkout.done.nopdf"}

\* C2: document generation starts only when the persistence call has returned
\* with the sale record inserted, a checkout changes the cart only by clearing
\* it in the step in which document generation has finished, and a checkout
\* whose insert failed never gets there.
C2_Ordering ==
  [][/\ (pc' = "pdf" => Persisted')
     /\ (pc' = "pdf" /\ pc # "pdf" => pc = "refresh" /\ Persisted)
     /\ (IsCheckoutStep(ev') /\ cart' # cart =>
           pc = "pdf" /\ pc' = "idle" /\ Persisted /\ cart' = <<>>)
     /\ (FailureStep => pc' = "idle")]_vars

C2_Witness ==
  /\ ev.op = "checkout.done" /\ pc = "idle" /\ cart = <<>>
  /\ Len(dbSales) = 1 /\ Len(dbSales[1].items) = 2

\* C3: when the sale is inserted and document generation throws, the sale
\* record and the stock stay as they are, the cart is cleared, the checkout
\* ends idle with the busy flag cleared, and no "Transaction Failed!" is shown.
C3_DocFailureKeepsSale ==
  [][ev'.op = "checkout.done.nopdf" =>
       /\ pc = "pdf" /\ Persisted
       /\ dbSales' = dbSales /\ dbProducts' = dbProducts
       /\ cart' = <<>>
       /\ pc' = "idle" /\ ~loading'
       /\ ev'.alert # "Transaction Failed!" /\ failures' = failures]_vars

C3_Witness ==
  /\ ev.op = "checkout.done.nopdf" /\ pc = "idle" /\ cart = <<>>
  /\ Len(dbSales) = 1 /\ dbSales[1].items # <<>> /\ ev.alert = NoAlert

\* C4 as stated: when document generation fails after the sale is inserted,
\* the user is shown a warning.
C4_DocFailureWarns ==
  ev.op = "checkout.done.nopdf" => ev.alert # NoAlert

\* C5: a checkout is submitted only when none is in flight, the busy flag is
\* set exactly while one is in flight, and a click made while the flag is set
\* is not delivered: it changes nothing of the checkout in flight or the
\* backend.
C5_OneInFlight ==
  [][/\ (ev'.op = "checkout.submit" => ~loading /\ pc = "idle")
     /\ (loading' <=> pc' # "idle")
     /\ (IsClick(ev') /\ loading =>
           /\ ev'.op = "checkout.disabled"
           /\ UNCHANGED <<cart, loading, pc, ck, dbProducts, dbSales>>)]_vars

C5_Witness ==
  /\ ev.op = "checkout.disabled" /\ loading /\ pc = "insert" /\ cart # <<>>

\* C6: a click on checkout with no cart line and both fees zero submits
\* nothing: cart, fees, busy flag, the checkout position and the backend are
\* unchanged.
C6_EmptyRejected ==
  [][(/\ IsClick(ev')
      /\ Len(cart) = 0
      /\ consultationFee(clinicFees) = 0
      /\ procedureCharges(clinicFees) = 0) =>
       /\ ev'.op # "checkout.submit"
       /\ UNCHANGED <<cart, clinicFees, loading, isSuccess, products, pc, ck,
                      dbProducts, dbSales, failures>>]_vars

C6_Witness ==
  /\ ev.op = "checkout.disabled" /\ cart = <<>> /\ clinicFees = EmptyFees
  /\ pc = "idle" /\ ~loading /\ dbSales = <<>>

\* The step changed the quantity of the line of product id, or made the line.
QuantityChanged(id) ==
  /\ HasLine(cart', id)
  /\ HasLine(cart, id) => FindLine(cart', id).quantity # FindLine(cart, id).quantity

\* C7 as stated: every cart line always has quantity >= 1, and a step that
\* changed a line's quantity leaves it at most the stock the step read.
C7_QuantityBounds ==
  [][\A id \in ProductIds :
       HasLine(cart', id) =>
         /\ FindLine(cart', id).quantity >= 1
         /\ (QuantityChanged(id) =>
               FindLine(cart', id).quantity <= products[id].stock)]_vars

\* C8: addToCart on a product that has a line: below the stock the quantity
\* of that line goes up by one and nothing else changes; at the stock the cart
\* is unchanged and "Not enough stock!" is shown.
C8_AddExisting ==
  [][\A p \in ProductIds :
       (ev'.op = "addToCart" /\ ev'.id = p /\ HasLine(cart, p)) =>
         /\ Len(cart') = Len(cart)
         /\ IF FindLine(cart, p).quantity < products[p].stock
            THEN /\ \A i \in DOMAIN cart :
                      IF cart[i].id = p
                      THEN SameButQuantity(cart', cart, i, cart[i].quantity + 1)
                      ELSE cart'[i] = cart[i]
                 /\ ev'.alert = NoAlert
            ELSE /\ cart' = cart
                 /\ ev'.alert = "Not enough stock!"]_vars

C8_Witness ==
  /\ ev.op = "addToCart" /\ ev.alert = "Not enough stock!"
  /\ HasLine(cart, ev.id)
  /\ FindLine(cart, ev.id).quantity = products[ev.id].stock
  /\ FindLine(cart, ev.id).quantity = MaxStock

\* C9: addToCart on a product that has no line appends one line for it with
\* quantity 1 and discount 0 and the catalog price, and leaves the lines that
\* were there as they were and in their order.
C9_AddNew ==
  [][\A p \in ProductIds :
       (ev'.op = "addToCart" /\ ev'.id = p /\ ~HasLine(cart, p)) =>
         /\ Len(cart') = Len(cart) + 1
         /\ \A i \in DOMAIN cart : cart'[i] = cart[i]
         /\ cart'[Len(cart')] =
              [id |-> p, price |-> products[p].price, quantity |-> 1, discount |-> 0]
         /\ ev'.alert = NoAlert]_vars

C9_Witness ==
  /\ ev.op = "addToCart" /\ Len(cart) = 2
  /\ cart[2] = [id |-> ev.id, price |-> products[ev.id].price,
                quantity |-> 1, discount |-> 0]
  /\ cart[1].quantity = MaxStock /\ cart[1].discount = 100

\* C10: updateQuantityExact with a number above the product's stock leaves
\* the line at quantity = stock, shows the "Max stock available" alert, and
\* leaves every other line as it was.
C10_SetAboveStock ==
  [][\A id \in ProductIds :
       (/\ ev'.op = "updateQuantityExact" /\ ev'.id = id
        /\ ev'.arg # <<>> /\ ev'.arg[1] > products[id].stock) =>
         /\ Len(cart') = Len(cart)
         /\ \A i \in DOMAIN cart :
               IF cart[i].id = id
               THEN SameButQuantity(cart', cart, i, products[id].stock)
               ELSE cart'[i] = cart[i]
         /\ ev'.alert = "Max stock available"]_vars

C10_Witness ==
  /\ ev.op = "updateQuantityExact" /\ ev.arg = <<MaxStock + 1>>
  /\ ev.alert = "Max stock available"
  /\ Len(cart) = 2
  /\ FindLine(cart, ev.id).quantity = products[ev.id].stock
  /\ products[ev.id].stock = MaxStock

----------------------------------------------------------------------------
\* The step is event op on the line of product id with the number n typed.
IsLineEvent(e, op, id) == e.op = op /\ e.id = id /\ e.arg # <<>>

\* C11 as stated: updateQuantityExact with a number below 1 leaves the line
\* as it was, its quantity whatever it was before, and does not remove it.
C11_BelowOneRejected ==
  [][\A id \in ProductIds :
       (IsLineEvent(ev', "updateQuantityExact", id) /\ ev'.arg[1] < 1) =>
         cart' = cart]_vars

\* C12 as stated: updateQuantity with quantity + delta above the stock leaves
\* the line at quantity = stock and shows an alert; with quantity + delta
\* below 1 it leaves the line as it was.
C12_AdjustClamps ==
  [][\A id \in ProductIds :
       IsLineEvent(ev', "updateQuantity", id) =>
         LET newQty == FindLine(cart, id).quantity + ev'.arg[1]
         IN /\ newQty > products[id].stock =>
                 /\ FindLine(cart', id).quantity = products[id].stock
                 /\ ev'.alert # NoAlert
            /\ newQty < 1 => cart' = cart]_vars

\* C13: every cart line always has a discount from 0 to 100 and a discounted
\* price that is price * (1 - discount / 100) and not negative; updateDiscount
\* with any number sets the discount of the addressed line to the number
\* brought into 0 .. 100 and changes nothing else of the cart, no quantity.
C13_DiscountBounds ==
  [][/\ \A i \in DOMAIN cart' :
          /\ cart'[i].discount >= 0 /\ cart'[i].discount <= 100
          /\ getDiscountedPrice(cart'[i]) >= 0
          /\ 100 * getDiscountedPrice(cart'[i]) =
               cart'[i].price * (100 - cart'[i].discount)
     /\ \A id \in ProductIds :
          IsLineEvent(ev', "updateDiscount", id) =>
            /\ Len(cart') = Len(cart)
            /\ \A i \in DOMAIN cart :
                  IF cart[i].id = id
                  THEN cart'[i] =
                         [cart[i] EXCEPT !.discount =
                            IF ev'.arg[1] < 0 THEN 0
                            ELSE IF ev'.arg[1] > 100 THEN 100 ELSE ev'.arg[1]]
                  ELSE cart'[i] = cart[i]]_vars

C13_Witness ==
  /\ ev.op = "updateDiscount" /\ ev.arg = <<150>>
  /\ Len(cart) = 2
  /\ FindLine(cart, ev.id).discount = 100 /\ FindLine(cart, ev.id).quantity = MaxStock
  /\ \E i \in DOMAIN cart : cart[i].id # ev.id /\ cart[i].discount = 10

\* What the customer owes, in hundredths of the money unit: the lines from the
\* last to the first, no division.
RECURSIVE Owed100(_)
Owed100(c) ==
  IF c = <<>> THEN 0
  ELSE c[Len(c)].price * (100 - c[Len(c)].discount) * c[Len(c)].quantity
       + Owed100(SubSeq(c, 1, Len(c) - 1))

\* The cart lines in the order f
Permuted(c, f) == [i \in DOMAIN c |-> c[f[i]]]

\* The cart of the scenario: A at 10.00 with 10% off once, B at 5.00 twice
IsScenarioCart(c) ==
  /\ Len(c) = 2
  /\ \E i \in DOMAIN c : c[i] = [id |-> "A", price |-> 100000, quantity |-> 1, discount |-> 10]
  /\ \E i \in DOMAIN c : c[i] = [id |-> "B", price |-> 50000, quantity |-> 2, discount |-> 0]

----------------------------------------------------------------------------
\* C15 as stated: whatever is typed into the fee boxes and whatever the cart,
\* finalTotal is never negative, and no row of table sales has a negative
\* total amount.
C15_TotalNeverNegative ==
  /\ finalTotal(cart, clinicFees) >= 0
  /\ \A i \in DOMAIN dbSales : dbSales[i].total_amount >= 0

\* C16 as stated: when a checkout has saved its invoice document, the total
\* amount of its sale row is the sum of the subtotals of the row's items, and
\* is the sum of the row totals of the document and the document's total
\* amount.
C16_NoDoubleCounting ==
  [][ev'.op = "checkout.done" =>
       LET row == SaleRow(ck)
           printed == doc'[1]
       IN /\ row.total_amount =
               SumSeq([i \in DOMAIN row.items |-> row.items[i].subtotal])
          /\ printed.total = toFixed2(row.total_amount)
          /\ printed.total =
               SumSeq([i \in DOMAIN printed.rows |-> printed.rows[i].total])]_vars

\* C17: a sale row is inserted in exactly one step of a checkout, the step
\* in which createSale's insert succeeds, which appends that one row and
\* leaves the rows that were there as they were; a checkout gets to its
\* refresh, its document and its end only through that step; a checkout that
\* ends in "Transaction Failed!" and a click that submits nothing insert
\* nothing; and no step but the clearing of the history changes or removes a
\* row.
C17_OneRecordPerCheckout ==
  [][/\ (ev'.op = "createSale.insert" =>
           /\ pc = "insert" /\ pc' = "refresh"
           /\ dbSales' = Append(dbSales, SaleRow(ck)))
     /\ (ev'.op = "clearSalesHistory" => dbSales' \in {<<>>, dbSales})
     /\ (ev'.op \notin {"createSale.insert", "clearSalesHistory"} =>
           dbSales' = dbSales)
     /\ (pc' = "refresh" => ev'.op = "createSale.insert" \/ pc = "refresh")
     /\ (pc' = "pdf" => pc \in {"refresh", "pdf"})
     /\ (ev'.op \in {"checkout.done", "checkout.done.nopdf"} => pc = "pdf")
     /\ (FailureStep => pc = "insert" /\ dbSales' = dbSales)
     /\ (ev'.op \in {"checkout.disabled", "checkout.empty"} =>
           pc' = pc /\ dbSales' = dbSales)]_vars

C17_Witness ==
  /\ ev.op = "checkout.done" /\ pc = "idle"
  /\ Len(dbSales) = 2 /\ dbSales[1] = OldSale
  /\ dbSales[2].seller_id = Cashier /\ Len(dbSales[2].items) = 3
  /\ failures = 1

\* The columns of a sale row that hold customer or patient data
ExtraColumns(row) ==
  [patient_name |-> row.patient_name, diagnosis |-> row.diagnosis,
   customer_name |-> row.customer_name, customer_age |-> row.customer_age,
   customer_contact |-> row.customer_contact]

\* C18: the checkout takes the customer data as they are at the click; the
\* row it inserts holds, for CLINIC and PHARMACY, the name as patient name and
\* the diagnosis and no customer name, age or contact; for RESTAURANT the
\* customer name, age and contact and no patient name or diagnosis; for SHOP
\* the customer name alone. In a clinic, consultation 20.00, procedures 15.00
\* and one A at 10.00 with 10% off give the total amount 44.00.
C18_RecordFields ==
  [][/\ (ev'.op = "checkout.submit" => ck'.customer = customerData)
     /\ (ev'.op = "createSale.insert" =>
           LET row == dbSales'[Len(dbSales')]
               cd == ck.customer
           IN /\ ExtraColumns(row) =
                   IF businessType \in {"CLINIC", "PHARMACY"}
                   THEN [patient_name |-> <<cd.name>>, diagnosis |-> <<cd.diagnosis>>,
                         customer_name |-> <<>>, customer_age |-> <<>>,
                         customer_contact |-> <<>>]
                   ELSE IF businessType = "RESTAURANT"
                   THEN [patient_name |-> <<>>, diagnosis |-> <<>>,
                         customer_name |-> <<cd.name>>, customer_age |-> <<cd.age>>,
                         customer_contact |-> <<cd.contact>>]
                   ELSE [patient_name |-> <<>>, diagnosis |-> <<>>,
                         customer_name |-> <<cd.name>>, customer_age |-> <<>>,
                         customer_contact |-> <<>>]
              /\ (/\ businessType = "CLINIC"
                  /\ ck.fees = [consultation |-> <<200000>>, procedures |-> <<150000>>]
                  /\ ck.cart = <<[id |-> "A", price |-> 100000, quantity |-> 1,
                                  discount |-> 10]>>) =>
                   row.total_amount = 440000)]_vars

C18_Witness ==
  /\ businessType = "CLINIC" /\ ev.op = "createSale.insert"
  /\ Len(dbSales) = 1
  /\ dbSales[1].total_amount = 440000 /\ Len(dbSales[1].items) = 3
  /\ dbSales[1].items[1].subtotal = 90000
  /\ dbSales[1].patient_name = <<"Ann">> /\ dbSales[1].diagnosis = <<"flu">>
  /\ dbSales[1].customer_name = <<>>

\* C19 as stated: in a restaurant, when name, age and contact are all entered
\* at the click, the saved invoice document prints the name, the age and the
\* contact.
C19_RestaurantFields ==
  [][(/\ ev'.op = "checkout.done"
      /\ businessType = "RESTAURANT"
      /\ ck.customer.name # "" /\ ck.customer.age # "" /\ ck.customer.contact # "") =>
       \A text \in {ck.customer.name, ck.customer.age, ck.customer.contact} :
         \E i \in DOMAIN doc'[1].fields : doc'[1].fields[i].text = text]_vars

\* The quantity of product p on the items sent to createSale
Sold(items, p) ==
  SumSeq([i \in DOMAIN items |-> IF items[i].id = p THEN items[i].quantity ELSE 0])

\* No checkout of the session has got to the sale insert before this one: the
\* stock is as it was when POS was mounted, but for this checkout's rounds.
FirstCheckout == failures = 0 /\ dbSales = <<>>

\* The step is one round of createSale's stock loop.
IsStockStep(e) == e.op \in {"createSale.stock", "createSale.stock.failed"}

\* C20 (as amended): with no concurrent session, the stock is changed by the
\* rounds of createSale's stock loop alone, one round per item of the sale in
\* order, all before the insert. The round of a cart line whose stock read and
\* write go through reduces the stock of that product by exactly the quantity
\* of the line; a round whose read or write fails, and the round of a fee
\* pseudo-item, change nothing; no round changes another product or a price.
\* So when the sale row of the first checkout is inserted, the stock of every
\* product is what it was when POS was mounted, less the quantity sold or,
\* where the round failed, as it was.
C20_StockDecrement ==
  [][/\ (IsStockStep(ev') =>
           LET item == ck.items[ck.i]
           IN /\ pc = "stock" /\ ck.i \in DOMAIN ck.items /\ ck'.i = ck.i + 1
              /\ ev'.id = item.id
              /\ dbProducts' =
                   IF ev'.op = "createSale.stock" /\ item.id \in ProductIds
                   THEN [dbProducts EXCEPT
                           ![item.id].stock = dbProducts[item.id].stock - item.quantity]
                   ELSE dbProducts)
     /\ (~IsStockStep(ev') => dbProducts' = dbProducts /\ ck'.i \in {ck.i, 0, 1})
     /\ (ev'.op \in {"createSale.insert", "checkout.failed"} =>
           ck.i = Len(ck.items) + 1)
     /\ (ev'.op = "createSale.insert" /\ FirstCheckout =>
           \A p \in ProductIds :
             dbProducts[p].stock \in
               {InitialCatalog[p].stock - Sold(ck.items, p), InitialCatalog[p].stock})]_vars

\* C20 as stated: after a checkout whose sale row is inserted (the first of
\* the session, no other session), the stock of each product is reduced by
\* exactly the quantity sold of it.
C20_ExactDecrement ==
  [][(ev'.op = "createSale.insert" /\ FirstCheckout) =>
       \A p \in ProductIds :
         dbProducts[p].stock = InitialCatalog[p].stock - Sold(ck.items, p)]_vars

C20_Witness ==
  /\ ev.op = "createSale.insert" /\ businessType = "CLINIC" /\ failures = 0
  /\ Len(dbSales) = 1
  /\ Len(ck.items) = 3 /\ ck.items[3].id = "FEE-CONSULTATION"
  /\ ck.items[1].id = "A" /\ ck.items[1].quantity = MaxStock
  /\ dbProducts["A"].stock = 0
  /\ dbProducts["B"].stock = InitialCatalog["B"].stock

----------------------------------------------------------------------------
\* C30: no two cart lines are lines of the same product; a line of a product
\* that had none comes from addToCart of that product alone, so there are never
\* more lines than products added, and never more than the catalog has.
C30_UniqueProduct ==
  [][/\ \A i, j \in DOMAIN cart' : cart'[i].id = cart'[j].id => i = j
     /\ \A i \in DOMAIN cart' :
          /\ cart'[i].id \in ProductIds
          /\ ~HasLine(cart, cart'[i].id) =>
               ev'.op = "addToCart" /\ ev'.id = cart'[i].id
     /\ Len(cart') <= Cardinality(ProductIds)]_vars

C30_Witness ==
  /\ ev.op = "addToCart" /\ Len(cart) = 2
  /\ cart[1].id = ev.id /\ cart[1].quantity = 2 /\ cart[2].discount = 100

----------------------------------------------------------------------------
----------------------------------------------------------------------------
\* The quantity of product p on the rows of table sales
Recorded(p) ==
  SumSeq([k \in DOMAIN dbSales |->
            SumSeq([i \in DOMAIN dbSales[k].items |->
                      IF dbSales[k].items[i].productId = p
                      THEN dbSales[k].items[i].quantity ELSE 0])])

\* C28 as stated: whenever no checkout is in flight, after successful
\* checkouts and after checkouts whose sale insert failed, the stock of each
\* product is its stock when POS was mounted less the quantity of it on the
\* rows of table sales.
C28_StockConservation ==
  pc = "idle" =>
    \A p \in ProductIds : dbProducts[p].stock = InitialCatalog[p].stock - Recorded(p)

\* The step ends a checkout whose sale row is inserted.
IsDone(e) == e.op \in {"checkout.done", "checkout.done.nopdf"}

\* Line l is a line of cart c.
InCart(c, l) == \E j \in DOMAIN c : c[j] = l

\* C29 as stated: the row a checkout inserts is made from the cart as it was
\* at the click, and every line the cart holds when the checkout ends (added
\* or changed while it was in flight, or not) is either a line of the cart the
\* checkout recorded or still in the cart after the checkout is back at idle.
C29_NoLineLost ==
  [][/\ (ev'.op = "createSale.insert" =>
           dbSales'[Len(dbSales')].items =
             saleData(processedCart(ck.cart, ck.fees), ck.total, ck.extras, ck.now).items)
     /\ (IsDone(ev') =>
           \A i \in DOMAIN cart : InCart(ck.cart, cart[i]) \/ InCart(cart', cart[i]))]_vars

----------------------------------------------------------------------------
\* C24: the reset of the cart at the end of a checkout (setCart([])) leaves
\* the cart empty and raises no error whatever the cart holds, a cart that the
\* reset before it left empty included; the checkout ends idle with the
\* success indicator shown.
C24_ClearIdempotent ==
  [][IsDone(ev') =>
       /\ cart' = <<>> /\ ev'.alert = NoAlert
       /\ isSuccess' /\ pc' = "idle" /\ ~loading']_vars

\* A second checkout has ended, of the consultation fee alone: the cart the
\* first left empty is reset once more.
C24_Witness ==
  /\ ev.op = "checkout.done" /\ cart = <<>> /\ clears = 1
  /\ Len(dbSales) = 1 /\ dbSales[1].seller_id = Cashier
  /\ Len(doc[1].rows) = 1 /\ doc[1].rows[1].name = "Consultation Fee"
  /\ dbProducts["A"].stock = 0

----------------------------------------------------------------------------
\* C22: a checkout that is submitted (busy flag set) gets back to idle with
\* the busy flag cleared, whether the sale insert fails, document generation
\* fails or both go through, provided every request it awaits is answered.
C22_RunsToCompletion ==
  (loading \/ pc # "idle") ~> (pc = "idle" /\ ~loading)

\* A checkout has ended without its document, after one that ended in
\* "Transaction Failed!".
C22_Witness ==
  /\ ev.op = "checkout.done.nopdf" /\ failures = 1
  /\ pc = "idle" /\ ~loading /\ Len(dbSales) = 1 /\ doc = <<>>

----------------------------------------------------------------------------
\* C26: the price of a cart line is the price the catalog held, as last
\* fetched, when addToCart made the line; no step changes the price of a line
\* that is there: no merge by addToCart, no quantity or discount change, no
\* price change by the administrator, no refresh of the catalog.
C26_PriceSnapshot ==
  [][\A i \in DOMAIN cart' :
       IF HasLine(cart, cart'[i].id)
       THEN cart'[i].price = FindLine(cart, cart'[i].id).price
       ELSE cart'[i].price = products[cart'[i].id].price]_vars

\* addToCart has merged into a line whose price is no longer the price of the
\* refreshed catalog.
C26_Witness ==
  /\ ev.op = "addToCart" /\ ev.id = "A" /\ pc = "pdf"
  /\ cart[1].id = "A" /\ cart[1].quantity = 2 /\ cart[1].discount = 10
  /\ cart[1].price = 100000 /\ products["A"].price = 99900

\* A whole number of cents
IsCents(x) == x % 100 = 0

\* C25 as stated: every amount on a row of table sales (priceAtSale and
\* subtotal of each item, total amount) is a whole number of cents.
C25_RoundedAtPersist ==
  \A k \in DOMAIN dbSales :
    /\ IsCents(dbSales[k].total_amount)
    /\ \A i \in DOMAIN dbSales[k].items :
         /\ IsCents(dbSales[k].items[i].priceAtSale)
         /\ IsCents(dbSales[k].items[i].subtotal)

----------------------------------------------------------------------------
\* C27 as stated: when a checkout has saved its invoice document, the invoice
\* number printed on the document is the invoice number on the sale row of
\* that checkout.
C27_SameInvoiceId ==
  [][ev'.op = "checkout.done" =>
       doc'[1].invoiceId = dbSales'[Len(dbSales')].invoice_id]_vars

----------------------------------------------------------------------------
\* The round of product p of the call of seller s read the stock stock and
\* its write went through.
ReadAndWrote(s, p, stock) ==
  \E k \in DOMAIN calls[s].log :
    /\ calls[s].log[k].id = p
    /\ calls[s].log[k].read = <<stock>>
    /\ calls[s].log[k].wrote

\* Both sellers' sales are recorded, and both calls read the stock of p as it
\* was at the start, so before either wrote it.
RacedOn(p) ==
  \A s \in Sellers :
    calls[s].pc = "done" /\ ReadAndWrote(s, p, InitialCatalog[p].stock)

\* C21: when the createSale calls of two sellers both read the stock of a
\* product before either writes it, both sales are recorded and the stock is
\* left reduced by the quantity of one of the two sales alone: more units of
\* the product are on the sale rows than the stock was reduced by.
C21_OversellRace ==
  \A p \in ProductIds :
    RacedOn(p) =>
      /\ Len(dbSales) = Cardinality(Sellers)
      /\ \E s \in Sellers :
           dbProducts[p].stock = InitialCatalog[p].stock - Sold(calls[s].items, p)
      /\ Recorded(p) > InitialCatalog[p].stock - dbProducts[p].stock

\* Both sellers have sold every A in stock.
C21_Witness ==
  /\ RacedOn("A") /\ Len(dbSales) = 2
  /\ Recorded("A") = 2 * MaxStock /\ dbProducts["A"].stock = 0

====
